---- MODULE Spec2Model ----
(***************************************************************************)
(* Model of the slot-scribe-booking application: the Postgres schema with  *)
(* its row-level-security policies (the initial migration), and the React  *)
(* pages that drive it (BookSlot, AdminDashboard, BookingHistory,          *)
(* UserDashboard).  A "session" is one browser tab: it holds the supabase  *)
(* client's auth session (authUid, what auth.uid() evaluates to for its    *)
(* requests) and the AuthContext's user (the profile id the pages read).   *)
(***************************************************************************)
EXTENDS Integers, FiniteSets, Sequences, TLC

(* ------------------------------ bounds --------------------------------- *)
MaxBookings    == 2   \* rows ever inserted into public.bookings
MaxAuthChanges == 1   \* sign-in / sign-out events over all sessions
MaxAuthCalls   == 3   \* register / login / logout calls and reloads of a tab

(* ---------------------------- value spaces ----------------------------- *)
NoUser     == "none"                    \* auth.uid() IS NULL / user === null
Principals == {"alice", "bob", "admin"} \* rows of auth.users
BookSessions  == {"s1", "s2"}           \* browser tabs on the user pages
AdminSessions == {"a1", "a2"}           \* browser tabs on the admin dashboard
Sessions   == BookSessions \cup AdminSessions
Games      == {"cricket", "carrom"}
Dates      == {"2024-06-15"}
timeSlots  == {"10:00", "11:00"}
Statuses   == {"pending", "confirmed", "canceled", "no-show"}
Null       == -1                        \* SQL NULL in bookings.cost
Costs      == {500}                       \* parseFloat(input) || 0
Unset      == ""                        \* '' / undefined in page state

AdminEmail == "admin@sportclub.com"
Email(p)   == IF p = "admin" THEN AdminEmail ELSE p

VARIABLES
  profiles,       \* public.profiles: set of rows [id, role]
  games,          \* public.games: game id -> [is_active]
  bookings,       \* public.bookings: set of rows
  nextId,         \* next fresh bookings.id
  createdBy,      \* history: booking id -> who inserted it, for whom
  authUid,        \* session -> principal of the supabase client's session
  user,           \* session -> AuthContext user id
  authChanges,    \* number of sign-in / sign-out events so far
  page,           \* session -> mounted page
  pageGames,      \* BookSlot: games state
  selectedGame,   \* BookSlot: selectedGame state
  selectedDate,   \* BookSlot: selectedDate state
  selectedTime,   \* BookSlot: selectedTime state
  bookedSlots,    \* BookSlot: bookedSlots state
  slotFetches,    \* BookSlot: fetchBookedSlots requests in flight
  insertReq,      \* BookSlot: the insert of handleSubmit (isSubmitting)
  toast,          \* the notification the last step raised, if any
  pageBookings,   \* bookings state of the mounted page (rows as displayed)
  authUsers,      \* auth.users: the principals that signed up
  userRole,       \* session -> role of the AuthContext user
  isLoading,      \* session -> AuthContext isLoading
  authEvents,     \* session -> auth state changes whose callback is yet to run
  profileFetches, \* session -> fetchUserProfile calls in flight
  authCall,       \* session -> the login / register / logout call in progress
  loggedOut       \* history: session -> logout returned, no sign-in since

vars == <<profiles, games, bookings, nextId, createdBy, authUid, user,
          authChanges, page, pageGames, selectedGame, selectedDate,
          selectedTime, bookedSlots, slotFetches, insertReq, toast,
          pageBookings, authUsers, userRole, isLoading, authEvents,
          profileFetches, authCall, loggedOut>>

dbVars    == <<profiles, games, bookings, nextId, createdBy>>
ctxVars   == <<authUsers, userRole, isLoading, authEvents, profileFetches,
               authCall, loggedOut>>
authVars  == <<authUid, user, authChanges, ctxVars>>
bookVars  == <<pageGames, selectedGame, selectedDate, selectedTime,
               bookedSlots, slotFetches, insertReq>>

(* ------------------------- schema and policies ------------------------- *)
NoReq == [kind |-> "none"]
NoToast == [session |-> "none", title |-> "none"]
Toast(s, title) == [session |-> s, title |-> title]

\* A variant of handle_new_user without its CASE on the email
NewUserRoleUser(email) == "user"

\* handle_new_user: the role a new auth user's profile gets
NewUserRole(email) == IF email = AdminEmail THEN "admin" ELSE "user"

\* EXISTS (SELECT 1 FROM profiles WHERE id = auth.uid() AND role = 'admin')
IsAdmin(uid) == \E r \in profiles : r.id = uid /\ r.role = "admin"

\* A variant of the migration whose update policy on profiles is USING (true)
ProfilesUpdatePolicyAll(uid, r) == TRUE

\* "Users can view all profiles", "Allow profile creation", "Users can update
\* own profile"
ProfilesSelectPolicy(uid, r) == TRUE
ProfilesInsertCheck(uid, r)  == r.id = uid
ProfilesUpdatePolicy(uid, r) == r.id = uid

\* A variant of the migration without the primary key of profiles
NoProfilesKey(r) == FALSE

\* id UUID PRIMARY KEY
ProfilesKeyViolation(r) == \E q \in profiles : q.id = r.id

\* The error of INSERT INTO profiles run as uid ("" when the row is stored);
\* id REFERENCES auth.users(id)
ProfileInsertError(uid, r) ==
  IF ~ProfilesInsertCheck(uid, r) THEN "42501"
  ELSE IF ProfilesKeyViolation(r) THEN "23505"
  ELSE IF r.id \notin authUsers THEN "23503"
  ELSE ""

\* on_auth_user_created: profiles after INSERT INTO auth.users of principal p
ProfilesAfterSignUp(p) ==
  profiles \cup { [id |-> p, role |-> NewUserRole(Email(p))] }

\* select * from profiles where id = id, run as uid
SelectProfile(uid, id) ==
  { r \in profiles : ProfilesSelectPolicy(uid, r) /\ r.id = id }

\* Variants of the policies: bookings readable by everyone, insertable for
\* anyone by whoever is signed in
SelectPolicyAll(uid, b) == TRUE
InsertCheckSignedIn(uid, b) == uid # NoUser

\* A variant of the migration whose delete policy on bookings is the one of
\* update: the owner or an admin
BookingsDeletePolicyOwner(uid, b) == b.user_id = uid \/ IsAdmin(uid)

BookingsSelectPolicy(uid, b) == b.user_id = uid \/ IsAdmin(uid)
BookingsInsertCheck(uid, b)  == b.user_id = uid
BookingsUpdatePolicy(uid, b) == b.user_id = uid \/ IsAdmin(uid)
BookingsDeletePolicy(uid, b) == IsAdmin(uid)

\* bookings.time_slot is a TIME: the text a request carries ('10:00') is
\* parsed into a time of day, and a result carries it as 'HH:MM:SS'
TimeValue(text) == IF Len(text) = 5 THEN text \o ":00" ELSE text

\* The key of UNIQUE(game_id, booking_date, time_slot)
Slot(b) == <<b.game_id, b.booking_date, TimeValue(b.time_slot)>>

\* Variants of the schema that the properties below must tell from it: no
\* unique constraint, and unique indexes restricted to some statuses
NoUniqueConstraint(b) == FALSE
UniqueAmongPending(b) == \E r \in bookings : Slot(r) = Slot(b) /\ r.status = "pending"
UniqueAmongOpen(b) ==
  \E r \in bookings : Slot(r) = Slot(b) /\ r.status \in {"pending", "confirmed"}

\* UNIQUE(game_id, booking_date, time_slot)
UniqueViolation(b) == \E r \in bookings : Slot(r) = Slot(b)

\* REFERENCES profiles(id) / REFERENCES games(id)
ForeignKeysHold(b) ==
  /\ \E r \in profiles : r.id = b.user_id
  /\ b.game_id \in DOMAIN games

\* A variant of InsertError in which the slot is checked the way the page
\* checks it, among the open bookings the caller can read
InsertErrorAdvisory(uid, b) ==
  IF b.user_id # uid THEN "42501"
  ELSE IF TimeValue(b.time_slot) \in { r.time_slot : r \in { q \in bookings :
            /\ q.user_id = uid \/ IsAdmin(uid)
            /\ q.game_id = b.game_id /\ q.booking_date = b.booking_date
            /\ q.status \in {"pending", "confirmed"} } } THEN "23505"
  ELSE IF ~ForeignKeysHold(b) THEN "23503"
  ELSE ""

\* The error of INSERT INTO bookings run as uid ("" when the row is stored):
\* the policy's WITH CHECK is evaluated before the row reaches the unique
\* index, foreign keys are checked at the end of the statement.
InsertError(uid, b) ==
  IF ~BookingsInsertCheck(uid, b) THEN "42501"
  ELSE IF UniqueViolation(b) THEN "23505"
  ELSE IF ~ForeignKeysHold(b) THEN "23503"
  ELSE ""

\* A variant of NewRow for a cost column that defaults to 0
NewRowCostZero(r) ==
  [id |-> nextId, user_id |-> r.user_id, game_id |-> r.game_id,
   booking_date |-> r.booking_date, time_slot |-> TimeValue(r.time_slot),
   status |-> r.status, cost |-> 0]

\* The row the insert stores: id from gen_random_uuid(), status and cost from
\* the request or the column defaults
NewRow(r) ==
  [id |-> nextId, user_id |-> r.user_id, game_id |-> r.game_id,
   booking_date |-> r.booking_date, time_slot |-> TimeValue(r.time_slot),
   status |-> r.status, cost |-> Null]

\* select time_slot from bookings where game_id = g and booking_date = d
\* and status in ('pending','confirmed'), run as uid
SelectBookedSlots(uid, g, d) ==
  { b.time_slot : b \in { r \in bookings :
        /\ BookingsSelectPolicy(uid, r)
        /\ r.game_id = g /\ r.booking_date = d
        /\ r.status \in {"pending", "confirmed"} } }

\* select ... from bookings where user_id = filter order by created_at desc,
\* run as uid; ids are handed out in creation order
SelectUserBookings(uid, filter) ==
  { r \in bookings : BookingsSelectPolicy(uid, r) /\ r.user_id = filter }

\* select * from bookings order by created_at desc, run as uid
SelectAllBookings(uid) == { r \in bookings : BookingsSelectPolicy(uid, r) }

\* .limit(n) of a result ordered by created_at descending
Limit(rows, n) ==
  { r \in rows : Cardinality({ q \in rows : q.id > r.id }) < n }

\* The columns of a row a page keeps for display
Displayed(rows) == { [id |-> r.id, status |-> r.status] : r \in rows }

\* A variant in which every game can be read by everyone
GamesSelectAll(uid, g) == TRUE

\* "Anyone can view active games" OR "Admins can manage games"
GamesSelectPolicy(uid, g) == games[g].is_active \/ IsAdmin(uid)

\* The rows of games as a page receives them
GameRows(ids) == { [id |-> g, is_active |-> games[g].is_active] : g \in ids }

\* select * from games where is_active = true, run as uid
SelectActiveGames(uid) ==
  GameRows({ g \in DOMAIN games : GamesSelectPolicy(uid, g) /\ games[g].is_active })

\* select * from games, run as uid
SelectAllGames(uid) == GameRows({ g \in DOMAIN games : GamesSelectPolicy(uid, g) })

\* "Admins can manage games" (FOR ALL): the only policy for writes to games
GamesUpdatePolicy(uid, g) == IsAdmin(uid)

\* "Admins can manage games" on INSERT: its USING is also the WITH CHECK
GamesInsertCheck(uid) == IsAdmin(uid)

\* The games table after INSERT INTO games (name, is_active) VALUES (g, true);
\* the row is named by the game's name
InsertedGames(g) ==
  [h \in DOMAIN games \cup {g} |->
     IF h \in DOMAIN games THEN games[h] ELSE [is_active |-> TRUE]]

\* A variant of toggleGameStatus whose update negates the stored flag
\* (SET is_active = NOT is_active) instead of writing the value it was given
UpdatedGamesFlip(uid, g, v) ==
  IF g \in DOMAIN games /\ GamesSelectPolicy(uid, g) /\ IsAdmin(uid)
    THEN [games EXCEPT ![g].is_active = ~games[g].is_active]
    ELSE games

\* UPDATE games SET is_active = v WHERE id = g, run as uid
UpdatedGames(uid, g, v) ==
  IF g \in DOMAIN games /\ GamesSelectPolicy(uid, g) /\ GamesUpdatePolicy(uid, g)
    THEN [games EXCEPT ![g].is_active = v]
    ELSE games

\* A variant of updateBookingStatus whose update always carries a cost, NULL
\* when none is supplied
UpdatedBookingsCostAlways(r) ==
  { IF b.id = r.id /\ BookingsSelectPolicy(r.uid, b) /\ BookingsUpdatePolicy(r.uid, b)
      THEN [b EXCEPT !.status = r.status, !.cost = r.cost]
      ELSE b : b \in bookings }

\* UPDATE bookings SET status [, cost] WHERE id = r.id, run as r.uid: rows the
\* policy hides are not updated, and that is no error
UpdatedBookings(r) ==
  { IF b.id = r.id /\ BookingsSelectPolicy(r.uid, b) /\ BookingsUpdatePolicy(r.uid, b)
      THEN [b EXCEPT !.status = r.status,
                     !.cost = IF r.cost = Null THEN b.cost ELSE r.cost]
      ELSE b : b \in bookings }

\* DELETE FROM bookings WHERE id = id, run as uid
RemainingBookings(uid, id) ==
  { b \in bookings : ~(b.id = id /\ BookingsDeletePolicy(uid, b)) }

(* ------------------------------- Init ---------------------------------- *)
\* The database after the migration (the seed games, no bookings) and after
\* the principals signed up (handle_new_user made their profiles); every tab
\* is signed in, its page just mounted.
Init ==
  /\ profiles = { [id |-> p, role |-> NewUserRole(Email(p))] : p \in Principals }
  /\ authUsers = Principals
  /\ games = [g \in Games |-> [is_active |-> TRUE]]
  /\ bookings = {}
  /\ nextId = 1
  /\ createdBy = << >>
  /\ authUid = [s \in Sessions |-> CASE s = "s1" -> "alice" [] s = "s2" -> "bob"
                                      [] OTHER -> "admin"]
  /\ user = authUid
  /\ authChanges = 0
  /\ page = [s \in Sessions |-> IF s \in AdminSessions THEN "admin" ELSE "book"]
  /\ pageGames = [s \in Sessions |-> {}]
  /\ selectedGame = [s \in Sessions |-> Unset]
  /\ selectedDate = [s \in Sessions |-> Unset]
  /\ selectedTime = [s \in Sessions |-> Unset]
  /\ bookedSlots = [s \in Sessions |-> {}]
  /\ slotFetches = [s \in Sessions |-> {}]
  /\ insertReq = [s \in Sessions |-> NoReq]
  /\ toast = NoToast
  /\ pageBookings = [s \in Sessions |-> {}]
  /\ userRole = [s \in Sessions |-> NewUserRole(Email(authUid[s]))]
  /\ isLoading = [s \in Sessions |-> FALSE]
  /\ authEvents = [s \in Sessions |-> << >>]
  /\ profileFetches = [s \in Sessions |-> {}]
  /\ authCall = [s \in Sessions |-> NoReq]
  /\ loggedOut = [s \in Sessions |-> FALSE]

(* ------------------------------ BookSlot ------------------------------- *)
\* fetchGames, called on mount
fetchGames(s) ==
  /\ page[s] = "book"
  /\ pageGames[s] = {}
  /\ pageGames' = [pageGames EXCEPT ![s] = SelectActiveGames(authUid[s])]
  /\ toast' = NoToast
  /\ UNCHANGED <<dbVars, authVars, page, selectedGame, selectedDate,
                 selectedTime, bookedSlots, slotFetches, insertReq,
                 pageBookings>>

\* useEffect on [selectedGame, selectedDate]: start fetchBookedSlots
SlotFetchesAfter(s, g, d) ==
  IF g # Unset /\ d # Unset
    THEN slotFetches[s] \cup {[uid |-> authUid[s], game |-> g, date |-> d]}
    ELSE slotFetches[s]

\* onClick of a game card
SelectGame(s, g) ==
  /\ page[s] = "book"
  /\ \E x \in pageGames[s] : x.id = g
  /\ g # selectedGame[s]
  /\ selectedGame' = [selectedGame EXCEPT ![s] = g]
  /\ slotFetches' = [slotFetches EXCEPT ![s] = SlotFetchesAfter(s, g, selectedDate[s])]
  /\ toast' = NoToast
  /\ UNCHANGED <<dbVars, authVars, page, pageGames, selectedDate, selectedTime,
                 bookedSlots, insertReq, pageBookings>>

\* onSelect of the calendar
SelectDate(s, d) ==
  /\ page[s] = "book"
  /\ pageGames[s] # {}
  /\ d # selectedDate[s]
  /\ selectedDate' = [selectedDate EXCEPT ![s] = d]
  /\ slotFetches' = [slotFetches EXCEPT ![s] = SlotFetchesAfter(s, selectedGame[s], d)]
  /\ toast' = NoToast
  /\ UNCHANGED <<dbVars, authVars, page, pageGames, selectedGame, selectedTime,
                 bookedSlots, insertReq, pageBookings>>

\* !bookedSlots.includes(time), for a time of timeSlots
isSlotAvailable(s, t) == t \notin bookedSlots[s]

\* onClick of a time slot button (disabled when the slot is not available)
SelectTime(s, t) ==
  /\ page[s] = "book"
  /\ pageGames[s] # {}
  /\ isSlotAvailable(s, t)
  /\ t # selectedTime[s]
  /\ selectedTime' = [selectedTime EXCEPT ![s] = t]
  /\ toast' = NoToast
  /\ UNCHANGED <<dbVars, authVars, page, pageGames, selectedGame, selectedDate,
                 bookedSlots, slotFetches, insertReq, pageBookings>>

\* fetchBookedSlots: the response of request q arrives
fetchBookedSlots(s, q) ==
  /\ page[s] = "book"
  /\ q \in slotFetches[s]
  /\ slotFetches' = [slotFetches EXCEPT ![s] = @ \ {q}]
  /\ bookedSlots' = [bookedSlots EXCEPT ![s] = SelectBookedSlots(q.uid, q.game, q.date)]
  /\ toast' = NoToast
  /\ UNCHANGED <<dbVars, authVars, page, pageGames, selectedGame, selectedDate,
                 selectedTime, insertReq, pageBookings>>

\* fetchBookedSlots: request q fails, bookedSlots keeps its value
fetchBookedSlotsError(s, q) ==
  /\ page[s] = "book"
  /\ q \in slotFetches[s]
  /\ slotFetches' = [slotFetches EXCEPT ![s] = @ \ {q}]
  /\ toast' = NoToast
  /\ UNCHANGED <<dbVars, authVars, page, pageGames, selectedGame, selectedDate,
                 selectedTime, bookedSlots, insertReq, pageBookings>>

isSubmitting(s) == insertReq[s].kind # "none"

\* The row handleSubmit sends
SubmittedRow(s) ==
  [user_id |-> user[s], game_id |-> selectedGame[s],
   booking_date |-> selectedDate[s], time_slot |-> selectedTime[s],
   status |-> "pending"]

\* handleSubmit up to the insert it awaits (the button is disabled while a
\* selection is missing or a submit is in flight)
handleSubmit(s) ==
  /\ page[s] = "book"
  /\ selectedGame[s] # Unset /\ selectedDate[s] # Unset /\ selectedTime[s] # Unset
  /\ ~isSubmitting(s)
  /\ IF user[s] = NoUser
       THEN /\ toast' = Toast(s, "Missing information")
            /\ UNCHANGED insertReq
       ELSE /\ insertReq' = [insertReq EXCEPT ![s] =
                 [kind |-> "sent", uid |-> authUid[s], error |-> "",
                  row |-> SubmittedRow(s)]]
            /\ toast' = NoToast
  /\ UNCHANGED <<dbVars, authVars, page, pageGames, selectedGame, selectedDate,
                 selectedTime, bookedSlots, slotFetches, pageBookings>>

\* A variant of the page that sends an upsert on the slot: a conflicting
\* booking of the sender goes back to pending, without a cost
InsertBookingUpsert(s) ==
  LET r == insertReq[s]
      err == InsertError(r.uid, r.row)
      own == { b \in bookings : Slot(b) = Slot(r.row) /\ b.user_id = r.uid }
  IN /\ r.kind = "sent"
     /\ err = "" => nextId <= MaxBookings
     /\ insertReq' = [insertReq EXCEPT ![s] =
          [r EXCEPT !.kind = "answered",
                    !.error = IF err = "23505" /\ own # {} THEN "" ELSE err]]
     /\ IF err = ""
          THEN /\ bookings' = bookings \cup {NewRow(r.row)}
               /\ nextId' = nextId + 1
               /\ createdBy' = createdBy \o <<[uid |-> r.uid, user_id |-> r.row.user_id]>>
          ELSE /\ bookings' = { IF b \in own /\ err = "23505"
                                  THEN [b EXCEPT !.status = "pending", !.cost = Null]
                                  ELSE b : b \in bookings }
               /\ UNCHANGED <<nextId, createdBy>>
     /\ toast' = NoToast
     /\ UNCHANGED <<profiles, games, authVars, page, pageGames, selectedGame,
                    selectedDate, selectedTime, bookedSlots, slotFetches,
                    pageBookings>>

\* The storage layer runs the insert of session s
InsertBooking(s) ==
  LET r == insertReq[s]
      err == InsertError(r.uid, r.row)
  IN /\ r.kind = "sent"
     /\ err = "" => nextId <= MaxBookings
     /\ insertReq' = [insertReq EXCEPT ![s] = [r EXCEPT !.kind = "answered", !.error = err]]
     /\ IF err = ""
          THEN /\ bookings' = bookings \cup {NewRow(r.row)}
               /\ nextId' = nextId + 1
               /\ createdBy' = createdBy \o <<[uid |-> r.uid, user_id |-> r.row.user_id]>>
          ELSE UNCHANGED <<bookings, nextId, createdBy>>
     /\ toast' = NoToast
     /\ UNCHANGED <<profiles, games, authVars, page, pageGames, selectedGame,
                    selectedDate, selectedTime, bookedSlots, slotFetches,
                    pageBookings>>

\* A variant of handleSubmit that sends the insert again when it returned an
\* error, without a word to the user
handleSubmitDoneRetry(s) ==
  LET r == insertReq[s]
  IN /\ r.kind = "answered"
     /\ IF r.error # ""
          THEN /\ insertReq' = [insertReq EXCEPT ![s] = [r EXCEPT !.kind = "sent", !.error = ""]]
               /\ toast' = NoToast
               /\ UNCHANGED <<page, pageGames, selectedGame, selectedDate,
                              selectedTime, bookedSlots, slotFetches>>
          ELSE /\ insertReq' = [insertReq EXCEPT ![s] = NoReq]
               /\ toast' = Toast(s, "Booking submitted!")
               /\ page' = [page EXCEPT ![s] = "dashboard"]
               /\ pageGames' = [pageGames EXCEPT ![s] = {}]
               /\ selectedGame' = [selectedGame EXCEPT ![s] = Unset]
               /\ selectedDate' = [selectedDate EXCEPT ![s] = Unset]
               /\ selectedTime' = [selectedTime EXCEPT ![s] = Unset]
               /\ bookedSlots' = [bookedSlots EXCEPT ![s] = {}]
               /\ slotFetches' = [slotFetches EXCEPT ![s] = {}]
     /\ UNCHANGED <<dbVars, authVars, pageBookings>>

\* handleSubmit after the insert answered: the error branch, or the success
\* toast and navigate('/dashboard'), which unmounts the page
handleSubmitDone(s) ==
  LET r == insertReq[s]
  IN /\ r.kind = "answered"
     /\ insertReq' = [insertReq EXCEPT ![s] = NoReq]
     /\ IF r.error # ""
          THEN /\ toast' = Toast(s, "Booking failed")
               /\ UNCHANGED <<page, pageGames, selectedGame, selectedDate,
                              selectedTime, bookedSlots, slotFetches>>
          ELSE /\ toast' = Toast(s, "Booking submitted!")
               /\ page' = [page EXCEPT ![s] = "dashboard"]
               /\ pageGames' = [pageGames EXCEPT ![s] = {}]
               /\ selectedGame' = [selectedGame EXCEPT ![s] = Unset]
               /\ selectedDate' = [selectedDate EXCEPT ![s] = Unset]
               /\ selectedTime' = [selectedTime EXCEPT ![s] = Unset]
               /\ bookedSlots' = [bookedSlots EXCEPT ![s] = {}]
               /\ slotFetches' = [slotFetches EXCEPT ![s] = {}]
     /\ UNCHANGED <<dbVars, authVars, pageBookings>>

\* handleSubmit when the request never reaches the storage layer
handleSubmitThrows(s) ==
  /\ insertReq[s].kind = "sent"
  /\ insertReq' = [insertReq EXCEPT ![s] = NoReq]
  /\ toast' = Toast(s, "Booking failed")
  /\ UNCHANGED <<dbVars, authVars, page, pageGames, selectedGame, selectedDate,
                 selectedTime, bookedSlots, slotFetches, pageBookings>>

\* handleSubmit run from start to end in a tab of principal p whose page
\* state is not followed: p picked game g, date d and time t and submitted
handleSubmitElsewhere(p, g, d, t) ==
  LET row == [user_id |-> p, game_id |-> g, booking_date |-> d,
              time_slot |-> t, status |-> "pending"]
  IN /\ InsertError(p, row) = "" => nextId <= MaxBookings
     /\ games[g].is_active
     /\ IF InsertError(p, row) = ""
          THEN /\ bookings' = bookings \cup {NewRow(row)}
               /\ nextId' = nextId + 1
               /\ createdBy' = createdBy \o <<[uid |-> p, user_id |-> p]>>
               /\ toast' = Toast(p, "Booking submitted!")
          ELSE /\ UNCHANGED <<bookings, nextId, createdBy>>
               /\ toast' = Toast(p, "Booking failed")
     /\ UNCHANGED <<profiles, games, authVars, page, bookVars, pageBookings>>

(* ------------------- BookSlot, src/pages/BookSlot.tsx ------------------ *)
\* The page of src/pages/BookSlot.tsx keeps its games and time slots in the
\* file and sends no request
BookSlot_timeSlots == {"10:00 AM", "11:00 AM"}

\* isSlotAvailable: a fixed list of unavailable slots
BookSlot_isSlotAvailable(time) == time \notin {"11:00 AM"}

\* onClick of a game card
BookSlot_setSelectedGame(s, g) ==
  /\ page[s] = "book"
  /\ g # selectedGame[s]
  /\ selectedGame' = [selectedGame EXCEPT ![s] = g]
  /\ toast' = NoToast
  /\ UNCHANGED <<dbVars, authVars, page, pageGames, selectedDate, selectedTime,
                 bookedSlots, slotFetches, insertReq, pageBookings>>

\* onSelect of the calendar
BookSlot_setSelectedDate(s, d) ==
  /\ page[s] = "book"
  /\ d # selectedDate[s]
  /\ selectedDate' = [selectedDate EXCEPT ![s] = d]
  /\ toast' = NoToast
  /\ UNCHANGED <<dbVars, authVars, page, pageGames, selectedGame, selectedTime,
                 bookedSlots, slotFetches, insertReq, pageBookings>>

\* onClick of a time slot button (disabled when the slot is not available)
BookSlot_setSelectedTime(s, t) ==
  /\ page[s] = "book"
  /\ BookSlot_isSlotAvailable(t)
  /\ t # selectedTime[s]
  /\ selectedTime' = [selectedTime EXCEPT ![s] = t]
  /\ toast' = NoToast
  /\ UNCHANGED <<dbVars, authVars, page, pageGames, selectedGame, selectedDate,
                 bookedSlots, slotFetches, insertReq, pageBookings>>

\* handleSubmit of src/pages/BookSlot.tsx (the button is disabled while a
\* selection is missing): a pause, the toast and navigate('/dashboard'),
\* which unmounts the page; no request is sent
BookSlot_handleSubmit(s) ==
  /\ page[s] = "book"
  /\ selectedGame[s] # Unset /\ selectedDate[s] # Unset /\ selectedTime[s] # Unset
  /\ toast' = Toast(s, "Booking submitted!")
  /\ page' = [page EXCEPT ![s] = "dashboard"]
  /\ selectedGame' = [selectedGame EXCEPT ![s] = Unset]
  /\ selectedDate' = [selectedDate EXCEPT ![s] = Unset]
  /\ selectedTime' = [selectedTime EXCEPT ![s] = Unset]
  /\ UNCHANGED <<dbVars, authVars, pageGames, bookedSlots, slotFetches,
                 insertReq, pageBookings>>

(* ------------------- UserDashboard / BookingHistory -------------------- *)
\* <Link to=...>: the mounted page is replaced by another one, whose state
\* starts empty; requests of the old page are answered to nobody
Navigate(s, target) ==
  /\ page[s] # "admin" /\ page[s] # target
  /\ page[s] = "dashboard" \/ target = "dashboard"
  /\ ~isSubmitting(s)
  /\ page' = [page EXCEPT ![s] = target]
  /\ pageGames' = [pageGames EXCEPT ![s] = {}]
  /\ selectedGame' = [selectedGame EXCEPT ![s] = Unset]
  /\ selectedDate' = [selectedDate EXCEPT ![s] = Unset]
  /\ selectedTime' = [selectedTime EXCEPT ![s] = Unset]
  /\ bookedSlots' = [bookedSlots EXCEPT ![s] = {}]
  /\ slotFetches' = [slotFetches EXCEPT ![s] = {}]
  /\ pageBookings' = [pageBookings EXCEPT ![s] = {}]
  /\ toast' = NoToast
  /\ UNCHANGED <<dbVars, authVars, insertReq>>

\* UserDashboard.fetchRecentBookings: .limit(3)
RecentLimit == 3

\* UserDashboard.fetchRecentBookings / BookingHistory.fetchBookings, run by
\* the effect on [user] when user is set
fetchUserBookings(s) ==
  /\ page[s] \in {"dashboard", "history"}
  /\ user[s] # NoUser
  /\ LET rows == SelectUserBookings(authUid[s], user[s])
     IN pageBookings' = [pageBookings EXCEPT ![s] =
          Displayed(IF page[s] = "dashboard" THEN Limit(rows, RecentLimit) ELSE rows)]
  /\ toast' = NoToast
  /\ UNCHANGED <<dbVars, authVars, page, bookVars>>

(* --------------------------- AdminDashboard ---------------------------- *)
\* AdminDashboard.fetchBookings, called on mount
fetchBookings(a) ==
  /\ page[a] = "admin"
  /\ pageBookings' = [pageBookings EXCEPT ![a] = Displayed(SelectAllBookings(authUid[a]))]
  /\ toast' = NoToast
  /\ UNCHANGED <<dbVars, authVars, page, bookVars>>

\* The buttons a row shows: Confirm (with a cost) and Reject on a row displayed
\* as pending, Mark No Show on a row displayed as confirmed
Buttons(shown) ==
  IF shown = "pending"
    THEN { [status |-> "confirmed", cost |-> c] : c \in Costs }
         \cup { [status |-> "canceled", cost |-> Null] }
    ELSE IF shown = "confirmed"
      THEN { [status |-> "no-show", cost |-> Null] }
      ELSE {}

\* The update updateBookingStatus sends: the cost only when one is supplied
UpdateRequest(a, id, btn) ==
  [uid |-> authUid[a], id |-> id, status |-> btn.status, cost |-> btn.cost]

\* updateBookingStatus(v.id, btn.status, btn.cost), from a button of the
\* displayed row v: the update, then fetchBookings and the toast
updateBookingStatus(a, v, btn) ==
  LET r == UpdateRequest(a, v.id, btn)
  IN /\ page[a] = "admin"
     /\ v \in pageBookings[a]
     /\ btn \in Buttons(v.status)
     /\ bookings' = UpdatedBookings(r)
     /\ pageBookings' = [pageBookings EXCEPT ![a] =
          Displayed({ b \in UpdatedBookings(r) : BookingsSelectPolicy(authUid[a], b) })]
     /\ toast' = Toast(a, "Booking updated")
     /\ UNCHANGED <<profiles, games, nextId, createdBy, authVars, page, bookVars>>

\* updateBookingStatus when the update returns an error
updateBookingStatusError(a, v, btn) ==
  /\ page[a] = "admin"
  /\ v \in pageBookings[a]
  /\ btn \in Buttons(v.status)
  /\ toast' = Toast(a, "Update failed")
  /\ UNCHANGED <<dbVars, authVars, page, bookVars, pageBookings>>

\* AdminDashboard.fetchGames, called on mount: no filter on is_active
AdminDashboard_fetchGames(a) ==
  /\ page[a] = "admin"
  /\ pageGames' = [pageGames EXCEPT ![a] = SelectAllGames(authUid[a])]
  /\ toast' = NoToast
  /\ UNCHANGED <<dbVars, authVars, page, selectedGame, selectedDate,
                 selectedTime, bookedSlots, slotFetches, insertReq,
                 pageBookings>>

\* toggleGameStatus(x.id, x.is_active), from the button of the displayed game
\* x: the update to the negation of the displayed flag, then fetchGames and
\* the toast
toggleGameStatus(a, x) ==
  LET after == UpdatedGames(authUid[a], x.id, ~x.is_active)
  IN /\ page[a] = "admin"
     /\ x \in pageGames[a]
     /\ games' = after
     /\ pageGames' = [pageGames EXCEPT ![a] =
          { [id |-> g, is_active |-> after[g].is_active] :
              g \in { h \in DOMAIN after : after[h].is_active \/ IsAdmin(authUid[a]) } }]
     /\ toast' = Toast(a, "Game updated")
     /\ UNCHANGED <<profiles, bookings, nextId, createdBy, authVars, page,
                    selectedGame, selectedDate, selectedTime, bookedSlots,
                    slotFetches, insertReq, pageBookings>>

\* toggleGameStatus when the update returns an error: logged, nothing shown
toggleGameStatusError(a, x) ==
  /\ page[a] = "admin"
  /\ x \in pageGames[a]
  /\ toast' = NoToast
  /\ UNCHANGED <<dbVars, authVars, page, bookVars, pageBookings>>

\* What the admin types as the name of a new game ('' or blanks for none)
NewGameNames == {"", "chess"}

\* addGame with newGame.name = name: the insert, then fetchGames and the toast
addGame(a, name) ==
  /\ page[a] = "admin"
  /\ name \notin DOMAIN games
  /\ IF name = ""
       THEN /\ toast' = Toast(a, "Invalid input")
            /\ UNCHANGED <<games, pageGames>>
       ELSE IF ~GamesInsertCheck(authUid[a])
         THEN /\ toast' = Toast(a, "Failed to add game")
              /\ UNCHANGED <<games, pageGames>>
         ELSE /\ games' = InsertedGames(name)
              /\ pageGames' = [pageGames EXCEPT ![a] =
                   { [id |-> g, is_active |-> InsertedGames(name)[g].is_active] :
                       g \in DOMAIN InsertedGames(name) }]
              /\ toast' = Toast(a, "Game added")
  /\ UNCHANGED <<profiles, bookings, nextId, createdBy, authVars, page,
                 selectedGame, selectedDate, selectedTime, bookedSlots,
                 slotFetches, insertReq, pageBookings>>

(* ------------------------- storage, directly --------------------------- *)
\* DELETE FROM bookings WHERE id = ..., as principal p (no page issues it)
DeleteBooking(p, id) ==
  /\ \E b \in bookings : b.id = id
  /\ bookings' = RemainingBookings(p, id)
  /\ toast' = NoToast
  /\ UNCHANGED <<profiles, games, nextId, createdBy, authVars, page, bookVars,
                 pageBookings>>

\* The profiles after UPDATE profiles SET role = ... WHERE id = q, run as uid:
\* the rows that the select and the update policy let uid touch
UpdatedProfiles(uid, q, role) ==
  { IF r.id = q /\ ProfilesSelectPolicy(uid, r) /\ ProfilesUpdatePolicy(uid, r)
      THEN [r EXCEPT !.role = role] ELSE r : r \in profiles }

\* UPDATE profiles SET role = ... WHERE id = q, as the signed-up principal p
\* (no page issues it)
UpdateProfile(p, q, role) ==
  /\ p \in authUsers
  /\ profiles' = UpdatedProfiles(p, q, role)
  /\ toast' = NoToast
  /\ UNCHANGED <<games, bookings, nextId, createdBy, authVars, page, bookVars,
                 pageBookings>>

\* INSERT INTO profiles (id, role) VALUES (q, ...), as the signed-up
\* principal p (no page issues it for another id than its own)
InsertProfile(p, q, role) ==
  /\ p \in authUsers
  /\ profiles' = IF ProfileInsertError(p, [id |-> q, role |-> role]) = ""
                   THEN profiles \cup {[id |-> q, role |-> role]}
                   ELSE profiles
  /\ toast' = NoToast
  /\ UNCHANGED <<games, bookings, nextId, createdBy, authVars, page, bookVars,
                 pageBookings>>

(* ------------------------------- auth ---------------------------------- *)
\* supabase.auth.signInWithPassword as p / supabase.auth.signOut (p = NoUser):
\* the client's session changes before the context's user does
AuthChange(s, p) ==
  /\ authChanges < MaxAuthChanges
  /\ p # authUid[s]
  /\ authUid' = [authUid EXCEPT ![s] = p]
  /\ authChanges' = authChanges + 1
  /\ toast' = NoToast
  /\ UNCHANGED <<dbVars, user, ctxVars, page, bookVars, pageBookings>>

\* The onAuthStateChange callback with its fetchUserProfile run to the end
\* (and logout's setUser(null)): the context's user follows the client's
\* session
AuthStateChanged(s) ==
  /\ user[s] # authUid[s]
  /\ user' = [user EXCEPT ![s] = authUid[s]]
  /\ userRole' = [userRole EXCEPT ![s] =
       IF authUid[s] = NoUser THEN Unset
       ELSE IF SelectProfile(authUid[s], authUid[s]) = {} THEN "user"
       ELSE (CHOOSE r \in SelectProfile(authUid[s], authUid[s]) : TRUE).role]
  /\ isLoading' = [isLoading EXCEPT ![s] = FALSE]
  /\ toast' = NoToast
  /\ UNCHANGED <<dbVars, authUid, authChanges, authUsers, authEvents,
                 profileFetches, authCall, loggedOut, page, bookVars,
                 pageBookings>>

(* ---------------------------- AuthContext ------------------------------ *)
\* What no function of the AuthContext touches
pageVars == <<games, bookings, nextId, createdBy, page, bookVars, pageBookings>>

\* A variant of basicUser that derives the role from the email
basicUserByEmail(id) == [id |-> id, role |-> NewUserRole(Email(id))]

\* basicUser of fetchUserProfile, and the row register and fetchUserProfile
\* insert: role 'user'
basicUser(id) == [id |-> id, role |-> "user"]

\* setUser(u)
setUser(s, u) ==
  /\ user' = [user EXCEPT ![s] = u.id]
  /\ userRole' = [userRole EXCEPT ![s] = u.role]

\* setUser(null)
setUserNull(s) ==
  /\ user' = [user EXCEPT ![s] = NoUser]
  /\ userRole' = [userRole EXCEPT ![s] = Unset]

\* The database after the migration, before anybody signed up; every tab has
\* just been opened, its AuthProvider mounted
InitAuth ==
  /\ profiles = {}
  /\ authUsers = {}
  /\ games = [g \in Games |-> [is_active |-> TRUE]]
  /\ bookings = {}
  /\ nextId = 1
  /\ createdBy = << >>
  /\ authUid = [s \in Sessions |-> NoUser]
  /\ user = [s \in Sessions |-> NoUser]
  /\ authChanges = 0
  /\ page = [s \in Sessions |-> IF s \in AdminSessions THEN "admin" ELSE "book"]
  /\ pageGames = [s \in Sessions |-> {}]
  /\ selectedGame = [s \in Sessions |-> Unset]
  /\ selectedDate = [s \in Sessions |-> Unset]
  /\ selectedTime = [s \in Sessions |-> Unset]
  /\ bookedSlots = [s \in Sessions |-> {}]
  /\ slotFetches = [s \in Sessions |-> {}]
  /\ insertReq = [s \in Sessions |-> NoReq]
  /\ toast = NoToast
  /\ pageBookings = [s \in Sessions |-> {}]
  /\ userRole = [s \in Sessions |-> Unset]
  /\ isLoading = [s \in Sessions |-> TRUE]
  /\ authEvents = [s \in Sessions |-> << >>]
  /\ profileFetches = [s \in Sessions |-> {}]
  /\ authCall = [s \in Sessions |-> [kind |-> "getSession"]]
  /\ loggedOut = [s \in Sessions |-> FALSE]

\* The effect's getSession().then(...)
getSession(s) ==
  /\ authCall[s].kind = "getSession"
  /\ authCall' = [authCall EXCEPT ![s] = NoReq]
  /\ IF authUid[s] # NoUser
       THEN /\ profileFetches' = [profileFetches EXCEPT ![s] =
                 @ \cup {[id |-> authUid[s], step |-> "select", by |-> "getSession"]}]
            /\ UNCHANGED isLoading
       ELSE /\ isLoading' = [isLoading EXCEPT ![s] = FALSE]
            /\ UNCHANGED profileFetches
  /\ toast' = NoToast
  /\ UNCHANGED <<profiles, pageVars, authUid, user, userRole, authChanges,
                 authUsers, authEvents, loggedOut>>

\* The onAuthStateChange callback for the oldest change not yet delivered
onAuthStateChange(s) ==
  /\ authEvents[s] # << >>
  /\ authEvents' = [authEvents EXCEPT ![s] = Tail(@)]
  /\ IF Head(authEvents[s]) # NoUser
       THEN /\ profileFetches' = [profileFetches EXCEPT ![s] =
                 @ \cup {[id |-> Head(authEvents[s]), step |-> "select",
                          by |-> "onAuthStateChange"]}]
            /\ UNCHANGED <<user, userRole, isLoading>>
       ELSE /\ setUserNull(s)
            /\ isLoading' = [isLoading EXCEPT ![s] = FALSE]
            /\ UNCHANGED profileFetches
  /\ toast' = NoToast
  /\ UNCHANGED <<profiles, pageVars, authUid, authChanges, authUsers, authCall,
                 loggedOut>>

\* A variant of fetchUserProfile without its finally block: isLoading is set
\* only where a profile was read or created
fetchUserProfileNoFinally(s, f, outcome) ==
  LET rows == SelectProfile(authUid[s], f.id)
      err  == IF outcome = "error" THEN "error"
              ELSE ProfileInsertError(authUid[s], basicUser(f.id))
  IN /\ f \in profileFetches[s]
     /\ IF f.step = "select" /\ outcome # "error" /\ rows = {} /\ authUid[s] # NoUser
          THEN /\ profileFetches' = [profileFetches EXCEPT ![s] =
                    (@ \ {f}) \cup {[f EXCEPT !.step = "insert"]}]
               /\ UNCHANGED <<profiles, user, userRole, isLoading>>
          ELSE /\ profileFetches' = [profileFetches EXCEPT ![s] = @ \ {f}]
               /\ isLoading' = [isLoading EXCEPT ![s] =
                    IF outcome = "error" THEN @ ELSE FALSE]
               /\ IF f.step = "select"
                    THEN /\ setUser(s, IF outcome = "error" \/ rows = {}
                                         THEN basicUser(f.id)
                                         ELSE CHOOSE r \in rows : TRUE)
                         /\ UNCHANGED profiles
                    ELSE /\ setUser(s, basicUser(f.id))
                         /\ profiles' = IF err = "" THEN profiles \cup {basicUser(f.id)}
                                        ELSE profiles
     /\ toast' = NoToast
     /\ UNCHANGED <<pageVars, authUid, authChanges, authUsers, authEvents,
                    authCall, loggedOut>>

\* fetchUserProfile: the answer to what call f awaits arrives, outcome
\* "error" when the request fails. After the select: the profile read, or
\* basicUser on an error, or, when no row is found (PGRST116) and getUser
\* gives a user, on to the insert. After the insert: the row stored, or
\* basicUser on an error.
fetchUserProfile(s, f, outcome) ==
  LET rows == SelectProfile(authUid[s], f.id)
      err  == IF outcome = "error" THEN "error"
              ELSE ProfileInsertError(authUid[s], basicUser(f.id))
  IN /\ f \in profileFetches[s]
     /\ IF f.step = "select" /\ outcome # "error" /\ rows = {} /\ authUid[s] # NoUser
          THEN /\ profileFetches' = [profileFetches EXCEPT ![s] =
                    (@ \ {f}) \cup {[f EXCEPT !.step = "insert"]}]
               /\ UNCHANGED <<profiles, user, userRole, isLoading>>
          ELSE /\ profileFetches' = [profileFetches EXCEPT ![s] = @ \ {f}]
               /\ isLoading' = [isLoading EXCEPT ![s] = FALSE]
               /\ IF f.step = "select"
                    THEN /\ setUser(s, IF outcome = "error" \/ rows = {}
                                         THEN basicUser(f.id)
                                         ELSE CHOOSE r \in rows : TRUE)
                         /\ UNCHANGED profiles
                    ELSE /\ setUser(s, basicUser(f.id))
                         /\ profiles' = IF err = "" THEN profiles \cup {basicUser(f.id)}
                                        ELSE profiles
     /\ toast' = NoToast
     /\ UNCHANGED <<pageVars, authUid, authChanges, authUsers, authEvents,
                    authCall, loggedOut>>

\* login(email of p, password), to its awaited fetchUserProfile; the sign-in
\* fails when nobody signed up as p
login(s, p) ==
  /\ authCall[s] = NoReq
  /\ authChanges < MaxAuthCalls
  /\ authChanges' = authChanges + 1
  /\ IF p \in authUsers
       THEN /\ authUid' = [authUid EXCEPT ![s] = p]
            /\ authEvents' = [authEvents EXCEPT ![s] = Append(@, p)]
            /\ profileFetches' = [profileFetches EXCEPT ![s] =
                 @ \cup {[id |-> p, step |-> "select", by |-> "login"]}]
            /\ isLoading' = [isLoading EXCEPT ![s] = TRUE]
            /\ loggedOut' = [loggedOut EXCEPT ![s] = FALSE]
       ELSE /\ isLoading' = [isLoading EXCEPT ![s] = FALSE]
            /\ UNCHANGED <<authUid, authEvents, profileFetches, loggedOut>>
  /\ toast' = NoToast
  /\ UNCHANGED <<profiles, pageVars, user, userRole, authUsers, authCall>>

\* register(email of p, password, name), to its awaited insert: signUp fails
\* when p signed up before; else the trigger makes p's profile, and the
\* client has a session at once unless the email is to be confirmed first
register(s, p, session) ==
  /\ authCall[s] = NoReq
  /\ authChanges < MaxAuthCalls
  /\ authChanges' = authChanges + 1
  /\ IF p \in authUsers
       THEN /\ isLoading' = [isLoading EXCEPT ![s] = FALSE]
            /\ UNCHANGED <<profiles, authUsers, authUid, authEvents, authCall,
                           loggedOut>>
       ELSE /\ authUsers' = authUsers \cup {p}
            /\ profiles' = ProfilesAfterSignUp(p)
            /\ isLoading' = [isLoading EXCEPT ![s] = TRUE]
            /\ authCall' = [authCall EXCEPT ![s] = [kind |-> "register", id |-> p]]
            /\ loggedOut' = [loggedOut EXCEPT ![s] = FALSE]
            /\ IF session
                 THEN /\ authUid' = [authUid EXCEPT ![s] = p]
                      /\ authEvents' = [authEvents EXCEPT ![s] = Append(@, p)]
                 ELSE UNCHANGED <<authUid, authEvents>>
  /\ toast' = NoToast
  /\ UNCHANGED <<pageVars, user, userRole, profileFetches>>

\* register after its insert into profiles answered: whatever the answer,
\* setUser with role 'user'
registerInsert(s) ==
  LET row == basicUser(authCall[s].id)
  IN /\ authCall[s].kind = "register"
     /\ profiles' = IF ProfileInsertError(authUid[s], row) = ""
                      THEN profiles \cup {row} ELSE profiles
     /\ setUser(s, row)
     /\ isLoading' = [isLoading EXCEPT ![s] = FALSE]
     /\ authCall' = [authCall EXCEPT ![s] = NoReq]
     /\ toast' = NoToast
     /\ UNCHANGED <<pageVars, authUid, authChanges, authUsers, authEvents,
                    profileFetches, loggedOut>>

\* logout, to its awaited signOut (the button shows for a user)
logout(s) ==
  /\ authCall[s] = NoReq
  /\ user[s] # NoUser
  /\ authChanges < MaxAuthCalls
  /\ authChanges' = authChanges + 1
  /\ authUid' = [authUid EXCEPT ![s] = NoUser]
  /\ authEvents' = [authEvents EXCEPT ![s] = Append(@, NoUser)]
  /\ authCall' = [authCall EXCEPT ![s] = [kind |-> "logout"]]
  /\ toast' = NoToast
  /\ UNCHANGED <<profiles, pageVars, user, userRole, authUsers, isLoading,
                 profileFetches, loggedOut>>

\* logout after signOut: setUser(null), and logout returns
logoutDone(s) ==
  /\ authCall[s].kind = "logout"
  /\ setUserNull(s)
  /\ authCall' = [authCall EXCEPT ![s] = NoReq]
  /\ loggedOut' = [loggedOut EXCEPT ![s] = TRUE]
  /\ toast' = NoToast
  /\ UNCHANGED <<profiles, pageVars, authUid, authChanges, authUsers, isLoading,
                 authEvents, profileFetches>>

\* The tab is reloaded: the AuthProvider is mounted anew, its state from
\* useState, while the client keeps its stored session
Reload(s) ==
  /\ authChanges < MaxAuthCalls
  /\ authChanges' = authChanges + 1
  /\ setUserNull(s)
  /\ isLoading' = [isLoading EXCEPT ![s] = TRUE]
  /\ authEvents' = [authEvents EXCEPT ![s] = << >>]
  /\ profileFetches' = [profileFetches EXCEPT ![s] = {}]
  /\ authCall' = [authCall EXCEPT ![s] = [kind |-> "getSession"]]
  /\ toast' = NoToast
  /\ UNCHANGED <<profiles, pageVars, authUid, authUsers, loggedOut>>

(* --------------------------- specifications ---------------------------- *)
\* The steps of the BookSlot page of tab s, whose user picks games among G
BookSlotNext(s, G) ==
  \/ fetchGames(s)
  \/ \E g \in G : SelectGame(s, g)
  \/ \E d \in Dates : SelectDate(s, d)
  \/ \E t \in timeSlots : SelectTime(s, t)
  \/ \E q \in slotFetches[s] : fetchBookedSlots(s, q)
  \/ \E q \in slotFetches[s] : fetchBookedSlotsError(s, q)
  \/ handleSubmit(s)
  \/ InsertBooking(s)
  \/ handleSubmitDone(s)
  \/ handleSubmitThrows(s)

\* The steps of the UserDashboard and BookingHistory pages of tab s
UserPagesNext(s) ==
  \/ \E t \in {"book", "dashboard", "history"} : Navigate(s, t)
  \/ fetchUserBookings(s)

\* The steps of the AdminDashboard page of tab a
AdminNext(a) ==
  \/ fetchBookings(a)
  \/ \E v \in pageBookings[a] : \E btn \in Buttons(v.status) :
        updateBookingStatus(a, v, btn)
  \/ \E v \in pageBookings[a] : \E btn \in Buttons(v.status) :
        updateBookingStatusError(a, v, btn)

\* Spec: the ledger from the migration on. alice books from tab s1 and comes
\* back to the page after a booking, bob books from a tab that is not
\* followed, the admin works from tab a1.
Next ==
  \/ BookSlotNext("s1", {"cricket"})
  \/ \E target \in {"book", "dashboard"} : Navigate("s1", target)
  \/ AdminNext("a1")
  \/ \E d \in Dates, t \in timeSlots : handleSubmitElsewhere("bob", "cricket", d, t)

Spec == Init /\ [][Next]_vars

\* SpecCancel: as Spec, but alice stays on the dashboard after a booking, and
\* rows may be deleted in the storage layer.
NextCancel ==
  \/ BookSlotNext("s1", {"cricket"})
  \/ AdminNext("a1")
  \/ \E d \in Dates, t \in timeSlots : handleSubmitElsewhere("bob", "cricket", d, t)
  \/ \E p \in Principals, id \in 1..MaxBookings : DeleteBooking(p, id)

SpecCancel == Init /\ [][NextCancel]_vars

\* SpecSession: tab s1 while its account changes (sign-out, sign-in as someone
\* else), next to the admin's list in tab a1.
NextSession ==
  \/ BookSlotNext("s1", {"cricket"})
  \/ UserPagesNext("s1")
  \/ fetchBookings("a1")
  \/ \E s \in {"s1", "a1"} : \E p \in Principals \cup {NoUser} : AuthChange(s, p)
  \/ \E s \in {"s1", "a1"} : AuthStateChanged(s)

SpecSession == Init /\ [][NextSession]_vars

\* SpecRace: alice in tab s1 and bob in tab s2 book at the same time.
NextRace ==
  \/ BookSlotNext("s1", Games)
  \/ BookSlotNext("s2", Games)

SpecRace == Init /\ [][NextRace]_vars

\* SpecAdmin: two admin tabs work on the bookings alice and bob make.
NextAdmin ==
  \/ AdminNext("a1")
  \/ AdminNext("a2")
  \/ \E p \in {"alice", "bob"}, d \in Dates, t \in timeSlots :
        handleSubmitElsewhere(p, "cricket", d, t)

SpecAdmin == Init /\ [][NextAdmin]_vars

\* The steps of the games card of the AdminDashboard page of tab a
AdminGamesNext(a) ==
  \/ AdminDashboard_fetchGames(a)
  \/ \E x \in pageGames[a] : toggleGameStatus(a, x)
  \/ \E x \in pageGames[a] : toggleGameStatusError(a, x)
  \/ \E name \in NewGameNames : addGame(a, name)

\* SpecCatalog: the admin dashboard in tab a1 activates and deactivates games,
\* also after its account changed; tab s1 lists the games to book.
NextCatalog ==
  \/ AdminGamesNext("a1")
  \/ fetchGames("s1")
  \/ UserPagesNext("s1")
  \/ \E p \in Principals \cup {NoUser} : AuthChange("a1", p)
  \/ AuthStateChanged("a1")

SpecCatalog == Init /\ [][NextCatalog]_vars

\* The steps of the AuthProvider of tab s, for the accounts of P
AuthContextNext(s, P) ==
  \/ getSession(s)
  \/ onAuthStateChange(s)
  \/ \E f \in profileFetches[s] : \E outcome \in {"data", "error"} :
        fetchUserProfile(s, f, outcome)
  \/ \E p \in P : login(s, p)
  \/ \E p \in P : \E session \in BOOLEAN : register(s, p, session)
  \/ registerInsert(s)
  \/ logout(s)
  \/ logoutDone(s)
  \/ Reload(s)

\* SpecAuth: from the fresh database, the admin and alice sign up, sign in
\* and sign out in tab s1.
NextAuth == AuthContextNext("s1", {"admin", "alice"})

SpecAuth == InitAuth /\ [][NextAuth]_vars

\* SpecProfiles: SpecAuth, and the admin and alice write to profiles with
\* requests of their own.
NextProfiles ==
  \/ AuthContextNext("s1", {"admin", "alice"})
  \/ \E p, q \in {"admin", "alice"} : \E role \in {"user", "admin"} :
        \/ UpdateProfile(p, q, role)
        \/ InsertProfile(p, q, role)

SpecProfiles == InitAuth /\ [][NextProfiles]_vars

\* SpecPolicy: the bookings of alice in the admin's list of tab a1, whose
\* account changes to alice or bob while the list is shown, and deletes sent
\* by the admin and by alice.
NextPolicy ==
  \/ AdminNext("a1")
  \/ \E p \in {"alice", "bob"} : AuthChange("a1", p)
  \/ AuthStateChanged("a1")
  \/ \E d \in Dates, t \in timeSlots : handleSubmitElsewhere("alice", "cricket", d, t)
  \/ \E p \in {"admin", "alice"}, id \in 1..MaxBookings : DeleteBooking(p, id)

SpecPolicy == Init /\ [][NextPolicy]_vars

\* SpecUser: alice, role user, on the pages she reaches from tab s1 (book
\* slot, dashboard, booking history), the admin on the admin dashboard of a1.
NextUser ==
  \/ BookSlotNext("s1", {"cricket"})
  \/ UserPagesNext("s1")
  \/ AdminNext("a1")

SpecUser == Init /\ [][NextUser]_vars

\* SpecToggle: two admin dashboards, tabs a1 and a2, work on the games; the
\* list of one is out of date once the other changed a game.
NextToggle ==
  \/ AdminGamesNext("a1")
  \/ AdminGamesNext("a2")

SpecToggle == Init /\ [][NextToggle]_vars

\* SpecAuthFair: SpecAuth where every call that was started is answered: the
\* promise of getSession, the callback of a delivered change, the requests of
\* fetchUserProfile, the insert of register, the signOut of logout.
FairAuth ==
  /\ WF_vars(getSession("s1"))
  /\ WF_vars(onAuthStateChange("s1"))
  /\ WF_vars(\E f \in profileFetches["s1"] : \E outcome \in {"data", "error"} :
                fetchUserProfile("s1", f, outcome))
  /\ WF_vars(registerInsert("s1"))
  /\ WF_vars(logoutDone("s1"))

SpecAuthFair == InitAuth /\ [][NextAuth]_vars /\ FairAuth

\* SpecAuthReadable: SpecAuth while every request to profiles is answered
\* without a failure of the request itself.
NextAuthReadable ==
  \/ getSession("s1")
  \/ onAuthStateChange("s1")
  \/ \E f \in profileFetches["s1"] : fetchUserProfile("s1", f, "data")
  \/ \E p \in {"admin", "alice"} : login("s1", p)
  \/ \E p \in {"admin", "alice"} : \E session \in BOOLEAN : register("s1", p, session)
  \/ registerInsert("s1")
  \/ logout("s1")
  \/ logoutDone("s1")
  \/ Reload("s1")

SpecAuthReadable == InitAuth /\ [][NextAuthReadable]_vars

\* SpecSlots: alice changes game, date and time on the booking page of tab
\* s1 while the answers to fetchBookedSlots are under way; she also books
\* cricket from a tab that is not followed.
NextSlots ==
  \/ BookSlotNext("s1", Games)
  \/ \E d \in Dates, t \in timeSlots : handleSubmitElsewhere("alice", "cricket", d, t)

SpecSlots == Init /\ [][NextSlots]_vars

\* SpecBookSlotFile: tab s1 shows the page of src/pages/BookSlot.tsx, and the
\* dashboard and the history after it; alice also books from a tab with the
\* page that inserts.
NextBookSlotFile ==
  \/ \E g \in Games : BookSlot_setSelectedGame("s1", g)
  \/ \E d \in Dates : BookSlot_setSelectedDate("s1", d)
  \/ \E t \in BookSlot_timeSlots : BookSlot_setSelectedTime("s1", t)
  \/ BookSlot_handleSubmit("s1")
  \/ UserPagesNext("s1")
  \/ \E d \in Dates, t \in timeSlots : handleSubmitElsewhere("alice", "cricket", d, t)

SpecBookSlotFile == Init /\ [][NextBookSlotFile]_vars

\* SpecStale: alice books from the page of tab s1 while the admin dashboard
\* of tab a1 activates and deactivates games.
NextStale ==
  \/ BookSlotNext("s1", {"cricket"})
  \/ AdminGamesNext("a1")

SpecStale == Init /\ [][NextStale]_vars

(* ----------------------------- properties ------------------------------ *)
\* C1: no two bookings of the ledger share (game_id, booking_date, time_slot),
\* whatever their status and whoever owns them.
C1_SlotUnique == \A b1, b2 \in bookings : Slot(b1) = Slot(b2) => b1 = b2

\* Two bookings of different owners, one canceled and one confirmed, and a
\* third create that the constraint refused
C1_Witness ==
  /\ \E b1, b2 \in bookings :
        b1.user_id # b2.user_id /\ b1.status = "canceled" /\ b2.status = "confirmed"
  /\ insertReq["s1"].kind = "answered" /\ insertReq["s1"].error = "23505"

\* C2: when creates for the same slot run concurrently, exactly one stores its
\* booking and every other one fails, also when the availability check of
\* each of the pages let the slot through.
C2_ExactlyOneWins ==
  \A s, t \in BookSessions :
    (/\ s # t
     /\ insertReq[s].kind = "answered" /\ insertReq[t].kind = "answered"
     /\ Slot(insertReq[s].row) = Slot(insertReq[t].row))
    => /\ (insertReq[s].error = "") # (insertReq[t].error = "")
       /\ insertReq[s].error \in {"", "23505"}
       /\ Cardinality({ b \in bookings : Slot(b) = Slot(insertReq[s].row) }) = 1
       /\ \A b \in bookings : Slot(b) = Slot(insertReq[s].row) =>
             b.user_id = (IF insertReq[s].error = "" THEN insertReq[s].row.user_id
                          ELSE insertReq[t].row.user_id)

\* Both tabs submitted the slot their page showed as available; the insert of
\* s2 was stored, the insert of s1 was refused
C2_Witness ==
  /\ insertReq["s1"].kind = "answered" /\ insertReq["s2"].kind = "answered"
  /\ Slot(insertReq["s1"].row) = Slot(insertReq["s2"].row)
  /\ insertReq["s1"].error = "23505" /\ insertReq["s2"].error = ""
  /\ \A s \in BookSessions :
        slotFetches[s] = {} /\ isSlotAvailable(s, insertReq[s].row.time_slot)

\* C3: every status change that updateBookingStatus applies is one of
\* pending -> confirmed, pending -> canceled, confirmed -> no-show; a request
\* for any other change, also one from a view that is out of date, changes
\* nothing.
C3_OnlyAllowedTransitions ==
  [][\A b \in bookings : \A c \in bookings' :
        (c.id = b.id /\ c.status # b.status)
        => <<b.status, c.status>> \in { <<"pending", "confirmed">>,
                                        <<"pending", "canceled">>,
                                        <<"confirmed", "no-show">> }]_vars

\* C4: while a booking in status pending or confirmed holds a slot, a create
\* for that slot, by the owner of that booking or by any other principal,
\* fails with the unique violation and leaves the ledger as it is.
C4_OpenSlotRefused ==
  [][/\ \A s \in BookSessions :
          (/\ InsertBooking(s)
           /\ \E b \in bookings : /\ Slot(b) = Slot(insertReq[s].row)
                                  /\ b.status \in {"pending", "confirmed"})
          => insertReq'[s].error = "23505" /\ bookings' = bookings
     /\ \A d \in Dates, t \in timeSlots :
          (/\ handleSubmitElsewhere("bob", "cricket", d, t)
           /\ \E b \in bookings : /\ Slot(b) = <<"cricket", d, TimeValue(t)>>
                                  /\ b.status \in {"pending", "confirmed"})
          => toast'.title = "Booking failed" /\ bookings' = bookings]_vars

\* alice's create was refused for a slot that a confirmed booking of bob holds
C4_Witness ==
  /\ insertReq["s1"].kind = "answered" /\ insertReq["s1"].error = "23505"
  /\ insertReq["s1"].row.user_id = "alice"
  /\ \E b \in bookings : /\ Slot(b) = Slot(insertReq["s1"].row)
                         /\ b.status = "confirmed" /\ b.user_id = "bob"

\* C5: the slot of a canceled booking stays blocked: every create for it fails
\* with the unique violation, the slot is free again only once the row is
\* deleted, and no listing of the booked slots reports it.
C5_CanceledSlotStaysBlocked ==
  [][\A b \in bookings : b.status = "canceled" =>
        /\ \A s \in BookSessions :
             (InsertBooking(s) /\ Slot(insertReq[s].row) = Slot(b))
             => insertReq'[s].error = "23505" /\ bookings' = bookings
        /\ \A d \in Dates, t \in timeSlots :
             (handleSubmitElsewhere("bob", "cricket", d, t) /\ Slot(b) = <<"cricket", d, TimeValue(t)>>)
             => toast'.title = "Booking failed" /\ bookings' = bookings
        /\ \/ \E c \in bookings' : c.id = b.id /\ Slot(c) = Slot(b)
           \/ \E p \in Principals : DeleteBooking(p, b.id) /\ BookingsDeletePolicy(p, b)
        /\ \A uid \in Principals \cup {NoUser} :
             b.time_slot \notin SelectBookedSlots(uid, b.game_id, b.booking_date)]_vars

\* After a first booking was deleted, bob's booking was canceled; alice's page
\* shows its slot as available, and her create for it was refused
C5_Witness ==
  /\ insertReq["s1"].kind = "answered" /\ insertReq["s1"].error = "23505"
  /\ slotFetches["s1"] = {} /\ isSlotAvailable("s1", insertReq["s1"].row.time_slot)
  /\ \E b \in bookings : /\ Slot(b) = Slot(insertReq["s1"].row) /\ b.id > 1
                         /\ b.status = "canceled" /\ b.user_id = "bob"
  /\ \A b \in bookings : b.id # 1

\* C6: every booking enters the ledger with status pending and without a cost.
C6_NewBookingPendingNoCost ==
  [][\A n \in bookings' :
        (\A b \in bookings : b.id # n.id) => n.status = "pending" /\ n.cost = Null]_vars

\* The insert of tab s1 was stored
C6_Witness ==
  /\ insertReq["s1"].kind = "answered" /\ insertReq["s1"].error = ""
  /\ \E b \in bookings : /\ b.id = nextId - 1 /\ Slot(b) = Slot(insertReq["s1"].row)
                         /\ b.status = "pending" /\ b.cost = Null

\* C7: a create whose user_id is not the principal that sends it fails with
\* the policy violation and stores nothing; so every booking is owned by the
\* principal that created it.
C7_OwnerIsCreator ==
  [][/\ \A s \in BookSessions :
          (InsertBooking(s) /\ insertReq[s].row.user_id # insertReq[s].uid)
          => insertReq'[s].error = "42501" /\ bookings' = bookings
     /\ \A b \in bookings' : createdBy'[b.id].uid = b.user_id]_vars

\* The tab was signed in as bob when it sent a create for alice: refused
C7_Witness ==
  /\ insertReq["s1"].kind = "answered" /\ insertReq["s1"].error = "42501"
  /\ insertReq["s1"].uid = "bob" /\ insertReq["s1"].row.user_id = "alice"

\* C8: what a principal that is no admin reads of the bookings holds no
\* booking of another user, whatever the filter (the user_id filter of the
\* user pages, none on the admin dashboard); what an admin reads without a
\* filter is every booking.
C8_ReadsOwnRowsOnly ==
  [][/\ \A s \in BookSessions :
          (fetchUserBookings(s) /\ ~IsAdmin(authUid[s]))
          => \A v \in pageBookings'[s] :
               \E b \in bookings : b.id = v.id /\ b.user_id = authUid[s]
     /\ \A a \in AdminSessions :
          fetchBookings(a)
          => IF IsAdmin(authUid[a])
               THEN pageBookings'[a] = Displayed(bookings)
               ELSE \A v \in pageBookings'[a] :
                      \E b \in bookings : b.id = v.id /\ b.user_id = authUid[a]]_vars

\* bob's history shows bob's bookings, and none of those alice has
C8_Witness ==
  /\ authUid["s1"] = "bob" /\ page["s1"] = "history" /\ pageBookings["s1"] # {}
  /\ \A v \in pageBookings["s1"] : \E b \in bookings : b.id = v.id /\ b.user_id = "bob"
  /\ \E b \in bookings : b.user_id = "alice"

\* C9: for every principal, the listing of the booked slots of a game and a
\* date is the set of the time slots of all bookings of that game and date
\* in status pending or confirmed, whoever owns them.
C9_BookedSlotsOfEveryone ==
  [][\A s \in BookSessions : \A q \in slotFetches[s] :
        fetchBookedSlots(s, q)
        => bookedSlots'[s] =
             { b.time_slot : b \in { r \in bookings :
                   /\ r.game_id = q.game /\ r.booking_date = q.date
                   /\ r.status \in {"pending", "confirmed"} } }]_vars

\* C10: a principal that is no admin never receives an inactive game: its
\* listing of the active games and its listing of all games are the active
\* games, without an error; an admin's listing of all games is every game.
C10_InactiveGamesHidden ==
  [][/\ \A s \in BookSessions :
          (fetchGames(s) /\ ~IsAdmin(authUid[s]))
          => pageGames'[s] = GameRows({ g \in DOMAIN games : games[g].is_active })
     /\ \A a \in AdminSessions :
          AdminDashboard_fetchGames(a)
          => pageGames'[a] =
               GameRows(IF IsAdmin(authUid[a]) THEN DOMAIN games
                        ELSE { g \in DOMAIN games : games[g].is_active })]_vars

\* A game is inactive and the dashboard, read as bob, lists the other one
C10_Witness ==
  /\ authUid["a1"] = "bob"
  /\ \E g \in DOMAIN games : ~games[g].is_active
  /\ pageGames["a1"] # {}
  /\ pageGames["a1"] = GameRows({ g \in DOMAIN games : games[g].is_active })

\* C11: the games are changed by addGame and toggleGameStatus only when the
\* acting principal is an admin; the attempt of any other principal fails
\* (it is not reported as done) and changes no game; an addGame that is
\* reported as done adds one game, active, and changes no other.
C11_CatalogAdminOnly ==
  [][\A a \in AdminSessions :
       /\ \A x \in pageGames[a] :
            (toggleGameStatus(a, x) /\ ~IsAdmin(authUid[a]))
            => games' = games /\ toast'.title # "Game updated"
       /\ \A name \in NewGameNames :
            /\ (addGame(a, name) /\ ~IsAdmin(authUid[a]))
               => games' = games /\ toast'.title # "Game added"
            /\ (addGame(a, name) /\ toast'.title = "Game added")
               => /\ DOMAIN games' = DOMAIN games \cup {name}
                  /\ name \notin DOMAIN games
                  /\ games'[name].is_active
                  /\ \A g \in DOMAIN games : games'[g] = games[g]]_vars

\* C12: the profile a principal has once it signed up has role admin if and
\* only if its email is admin@sportclub.com, whichever of the trigger,
\* register and fetchUserProfile wrote it.
C12_AdminIffBootstrapEmail ==
  /\ \A r \in profiles : r.role = "admin" <=> Email(r.id) = AdminEmail
  /\ \A p \in authUsers : \E r \in profiles : r.id = p

\* The admin and alice registered in tab s1, both inserts of register were
\* answered, and the profile of alice was read
C12_Witness ==
  /\ [id |-> "admin", role |-> "admin"] \in profiles
  /\ [id |-> "alice", role |-> "user"] \in profiles
  /\ authCall["s1"] = NoReq /\ profileFetches["s1"] = {} /\ authEvents["s1"] = << >>
  /\ authUid["s1"] = "alice" /\ user["s1"] = "alice"

\* C13: every principal that signed up has exactly one profile, and there is
\* no other profile, whatever register, login, reloads and the profile
\* fetches that run side by side do.
C13_OneProfilePerPrincipal ==
  /\ \A p \in authUsers : Cardinality({ r \in profiles : r.id = p }) = 1
  /\ \A r \in profiles : r.id \in authUsers

\* The admin signed up and signed in again: the fetchUserProfile of login and
\* the one of the callback are both in flight
C13_Witness ==
  /\ "admin" \in authUsers
  /\ \E f, g \in profileFetches["s1"] :
        f.id = "admin" /\ g.id = "admin" /\ f.by = "login" /\ g.by = "onAuthStateChange"

\* C14: once logout returned, the context's user is null and stays null until
\* the next sign-in, whatever callbacks and profile fetches were under way.
C14_NullAfterLogout ==
  \A s \in Sessions : loggedOut[s] => user[s] = NoUser

\* C19: when the profile of a signed-in principal cannot be read, or not be
\* created, fetchUserProfile ends with the context's user set to that
\* principal with role user, the admin included, and isLoading false.
C19_FallbackProfile ==
  [][\A s \in BookSessions : \A f \in profileFetches[s] :
        fetchUserProfile(s, f, "error")
        => /\ user'[s] = f.id /\ userRole'[s] = "user" /\ ~isLoading'[s]
           /\ f \notin profileFetches'[s] /\ profiles' = profiles]_vars

\* The admin signed in after a reload, no call is under way, and the context
\* holds the admin with role user
C19_Witness ==
  /\ authUid["s1"] = "admin" /\ user["s1"] = "admin" /\ userRole["s1"] = "user"
  /\ [id |-> "admin", role |-> "admin"] \in profiles
  /\ ~isLoading["s1"] /\ profileFetches["s1"] = {} /\ authEvents["s1"] = << >>
  /\ authCall["s1"] = NoReq /\ authChanges = MaxAuthCalls

\* C16: the profile of a principal is written only by requests of that
\* principal (its sign-up included): the update and the insert of anybody else
\* change nothing, while its own update is stored; and whoever asks, signed in
\* or not, reads the profile of every principal.
C16_ProfileWritableBySelf ==
  /\ [](\A uid \in Principals \cup {NoUser} : \A q \in authUsers :
          /\ SelectProfile(uid, q) = { r \in profiles : r.id = q }
          /\ SelectProfile(uid, q) # {})
  /\ [][\A q \in Principals :
          /\ { r \in profiles' : r.id = q } # { r \in profiles : r.id = q }
             => \/ \E s \in Sessions : \E session \in BOOLEAN : register(s, q, session)
                \/ \E role \in {"user", "admin"} : UpdateProfile(q, q, role)
          /\ \A p \in Principals \ {q} : \A role \in {"user", "admin"} :
                (UpdateProfile(p, q, role) \/ InsertProfile(p, q, role))
                => profiles' = profiles
          /\ \A role \in {"user", "admin"} :
                UpdateProfile(q, q, role) /\ q \in authUsers
                => [id |-> q, role |-> role] \in profiles']_vars

\* alice changed the role of her own profile, the profile of the admin is as
\* the trigger wrote it, and alice is signed in in tab s1
C16_Witness ==
  /\ [id |-> "alice", role |-> "admin"] \in profiles
  /\ [id |-> "admin", role |-> "admin"] \in profiles
  /\ authUid["s1"] = "alice" /\ user["s1"] = "alice"

\* C15: whenever a booking of the ledger is changed, the step is an update
\* sent by its owner or by an admin, and whenever one is removed, the step is
\* a delete sent by an admin; the update and the delete of anybody else
\* leave the ledger as it was.
C15_UpdateOwnerOrAdminDeleteAdmin ==
  [][/\ \A b \in bookings : b \notin bookings' =>
          IF \E b2 \in bookings' : b2.id = b.id
            THEN \E a \in AdminSessions : \E v \in pageBookings[a] :
                   \E btn \in Buttons(v.status) :
                     /\ updateBookingStatus(a, v, btn) /\ v.id = b.id
                     /\ (b.user_id = authUid[a] \/ IsAdmin(authUid[a]))
            ELSE \E p \in Principals : DeleteBooking(p, b.id) /\ IsAdmin(p)
     /\ \A a \in AdminSessions : \A v \in pageBookings[a] : \A btn \in Buttons(v.status) :
          (/\ updateBookingStatus(a, v, btn)
           /\ \A b \in bookings :
                b.id = v.id => b.user_id # authUid[a] /\ ~IsAdmin(authUid[a]))
          => bookings' = bookings
     /\ \A p \in Principals : \A id \in 1..MaxBookings :
          DeleteBooking(p, id) /\ ~IsAdmin(p) => bookings' = bookings]_vars

\* Tab a1 is signed in as bob and sent an update for a booking of alice that
\* its list still showed: the bookings, all of alice, are pending as before
C15_Witness ==
  /\ authUid["a1"] = "bob"
  /\ toast = Toast("a1", "Booking updated")
  /\ bookings # {}
  /\ \A b \in bookings : b.user_id = "alice" /\ b.status = "pending"

\* C17: an updateBookingStatus for a booking that does not exist, or that the
\* caller cannot see, reports that the update failed, never that the booking
\* was updated, and changes no booking.
C17_MissingBookingReported ==
  [][\A a \in AdminSessions : \A v \in pageBookings[a] : \A btn \in Buttons(v.status) :
        (/\ updateBookingStatus(a, v, btn)
         /\ ~\E b \in bookings : b.id = v.id /\ BookingsSelectPolicy(authUid[a], b))
        => toast'.title = "Update failed" /\ bookings' = bookings]_vars

\* C18: an updateBookingStatus sets the status of the booking it names, and
\* its cost only when a cost is supplied: without one the cost stays what it
\* was (500 at the confirmation is still 500 after no-show); the owner, game,
\* date and slot of that booking and every other booking stay as they were.
C18_TransitionFrame ==
  [][\A a \in AdminSessions : \A v \in pageBookings[a] : \A btn \in Buttons(v.status) :
        updateBookingStatus(a, v, btn)
        => /\ { c.id : c \in bookings' } = { b.id : b \in bookings }
           /\ Cardinality(bookings') = Cardinality(bookings)
           /\ \A b \in bookings : \E c \in bookings' :
                /\ c.id = b.id
                /\ b.id # v.id => c = b
                /\ b.id = v.id =>
                     /\ c.status = btn.status
                     /\ c.cost = IF btn.cost = Null THEN b.cost ELSE btn.cost
                     /\ c = [b EXCEPT !.status = c.status, !.cost = c.cost]]_vars

\* A booking that was confirmed with cost 500 and then marked no-show, next
\* to a booking of the other user that is still pending
C18_Witness ==
  \E b, o \in bookings :
    /\ b.status = "no-show" /\ b.cost = 500
    /\ o.user_id # b.user_id /\ o.status = "pending" /\ o.cost = Null

\* C20: on the pages of the application, the status or the cost of a booking
\* changes only in an updateBookingStatus that an admin sends from the admin
\* dashboard: no step of the book slot page, the user dashboard or the
\* booking history changes the status or the cost of a booking.
C20_StatusCostByAdminOnly ==
  [][\A b \in bookings : \A c \in bookings' :
        (c.id = b.id /\ (c.status # b.status \/ c.cost # b.cost))
        => \E a \in AdminSessions :
             /\ IsAdmin(authUid[a]) /\ page[a] = "admin"
             /\ \E v \in pageBookings[a] : \E btn \in Buttons(v.status) :
                   updateBookingStatus(a, v, btn) /\ v.id = b.id]_vars

\* alice, role user, sees in her booking history the one booking of the
\* ledger, hers, which the admin confirmed with cost 500
C20_Witness ==
  /\ page["s1"] = "history" /\ userRole["s1"] = "user"
  /\ \E b \in bookings : \E v \in pageBookings["s1"] :
        /\ b.user_id = "alice" /\ b.status = "confirmed" /\ b.cost = 500
        /\ v.id = b.id /\ v.status = "confirmed"
  /\ Cardinality(bookings) = 1 /\ nextId = 2

\* C21: the update of toggleGameStatus is idempotent: sent once more with the
\* same game and the same flag, it leaves every game as the first one left
\* it; so a toggleGameStatus from a list that does not show an earlier one
\* with the same arguments changes no game.
C21_SetActiveIdempotent ==
  [][\A a \in AdminSessions : \A x \in pageGames[a] :
        toggleGameStatus(a, x)
        => /\ UpdatedGames(authUid[a], x.id, ~x.is_active)' = games'
           /\ (x.id \in DOMAIN games /\ games[x.id].is_active = ~x.is_active)
              => games' = games]_vars

\* Tab a2 deactivated cricket from a list that still showed it active, after
\* tab a1 had deactivated it: cricket is inactive, the other game untouched
C21_Witness ==
  /\ toast = Toast("a2", "Game updated")
  /\ ~games["cricket"].is_active /\ games["carrom"].is_active
  /\ [id |-> "cricket", is_active |-> FALSE] \in pageGames["a1"]
  /\ [id |-> "cricket", is_active |-> FALSE] \in pageGames["a2"]
  /\ [id |-> "carrom", is_active |-> TRUE] \in pageGames["a1"]

\* C22: when the insert of handleSubmit returned an error, handleSubmit shows
\* 'Booking failed', stays on the booking page with the selection as it was,
\* sends no insert of its own and ends with isSubmitting false; an insert is
\* sent only by a handleSubmit the user starts.
C22_FailedInsertSurfaced ==
  [][\A s \in BookSessions :
        /\ (handleSubmitDone(s) /\ insertReq[s].error # "")
           => /\ toast' = Toast(s, "Booking failed")
              /\ page'[s] = "book" /\ page[s] = "book"
              /\ ~isSubmitting(s)'
              /\ bookings' = bookings
              /\ <<selectedGame'[s], selectedDate'[s], selectedTime'[s]>>
                   = <<selectedGame[s], selectedDate[s], selectedTime[s]>>
        /\ (insertReq'[s].kind = "sent" /\ insertReq[s].kind # "sent")
           => handleSubmit(s) /\ insertReq[s].kind = "none"]_vars

\* The second request of alice for her slot was refused: the page shows
\* 'Booking failed', it is still the booking page, and nothing is in flight
C22_Witness ==
  /\ toast = Toast("s1", "Booking failed")
  /\ page["s1"] = "book" /\ insertReq["s1"] = NoReq
  /\ \E b \in bookings :
        /\ b.user_id = "alice"
        /\ Slot(b) = <<selectedGame["s1"], selectedDate["s1"], TimeValue(selectedTime["s1"])>>

\* C23: after the mount, a login or a register, isLoading becomes false again,
\* whatever the calls answer, and it is false whenever no call of the
\* AuthProvider is outstanding.
C23_LoadingEnds ==
  /\ []((/\ authCall["s1"] = NoReq /\ profileFetches["s1"] = {}
         /\ authEvents["s1"] = << >>) => ~isLoading["s1"])
  /\ (isLoading["s1"] ~> ~isLoading["s1"])

\* After a reload, a login of the admin whose profile could not be read: the
\* calls are all answered and isLoading is false
C23_Witness ==
  /\ authCall["s1"] = NoReq /\ profileFetches["s1"] = {} /\ authEvents["s1"] = << >>
  /\ ~isLoading["s1"]
  /\ authUid["s1"] = "admin" /\ user["s1"] = "admin" /\ userRole["s1"] = "user"
  /\ authChanges = MaxAuthCalls /\ ~loggedOut["s1"]

\* C24: whatever a principal with role user sends with its own session
\* (inserts and updates of its own profile row among them), its profile never
\* gets role admin: only the profile of admin@sportclub.com has role admin.
C24_OnlyBootstrapAdmin ==
  \A r \in profiles : r.role = "admin" => Email(r.id) = AdminEmail

\* C25: a booking has a cost if and only if its status is confirmed or
\* no-show, also when the admin dashboards act on lists that are out of date.
C25_CostIffConfirmed ==
  \A b \in bookings : b.cost # Null <=> b.status \in {"confirmed", "no-show"}

\* C26: when no call of the AuthProvider is outstanding and the profiles can
\* be read, the role of the context's user is the role of the stored profile
\* of that principal, also for the one registered as admin@sportclub.com.
C26_ContextRoleIsStoredRole ==
  \A s \in BookSessions :
    (/\ authCall[s] = NoReq /\ profileFetches[s] = {} /\ authEvents[s] = << >>
     /\ user[s] # NoUser)
    => \E r \in profiles : r.id = user[s] /\ r.role = userRole[s]

\* C27: whenever handleSubmit sends an insert, the time slot it submits is
\* none of the slots in the page's bookedSlots, the list fetched for the
\* selected game and date: a slot the page knows as booked is not submitted.
C27_BookedSlotNotSubmitted ==
  [][\A s \in BookSessions :
        (handleSubmit(s) /\ insertReq'[s].kind = "sent")
        => TimeValue(selectedTime[s]) \notin { TimeValue(t) : t \in bookedSlots[s] }]_vars

\* C28: when the last outstanding fetchBookedSlots request of a page is
\* answered, bookedSlots is the result for the game and date selected then,
\* in whatever order the answers arrive, and also when the request that
\* fails is one for an earlier selection.
C28_BookedSlotsOfSelection ==
  [][\A s \in BookSessions : \A q \in slotFetches[s] :
        (/\ slotFetches'[s] = {}
         /\ \/ fetchBookedSlots(s, q)
            \/ /\ fetchBookedSlotsError(s, q)
               /\ <<q.game, q.date>> # <<selectedGame[s], selectedDate[s]>>)
        => bookedSlots'[s] = SelectBookedSlots(authUid[s], selectedGame[s], selectedDate[s])]_vars

\* C29: the page shows 'Booking submitted!' and goes to the dashboard only
\* when the ledger holds a booking of the signed-in user for the game, date
\* and time slot selected on the page.
C29_SuccessOnlyAfterInsert ==
  [][\A s \in BookSessions :
        (/\ toast' = Toast(s, "Booking submitted!")
         /\ page[s] = "book" /\ page'[s] = "dashboard")
        => \E b \in bookings' :
             /\ b.user_id = user[s] /\ b.game_id = selectedGame[s]
             /\ b.booking_date = selectedDate[s]
             /\ TimeValue(b.time_slot) = TimeValue(selectedTime[s])]_vars

\* C30: a booking is stored only for a game that is active when the insert
\* runs, also when the page that sends it listed the game before an admin
\* deactivated it.
C30_InsertOnlyForActiveGame ==
  [][\A s \in BookSessions :
        (InsertBooking(s) /\ bookings' # bookings)
        => games[insertReq[s].row.game_id].is_active]_vars
====
